---- MODULE Spec2Model ----
(***************************************************************************)
(* Model of Run.py, the FlightHub telemetry gateway: the background        *)
(* poller (fetch, normalize, merge, broadcast, sleep), the process-wide    *)
(* state table latest_by_sn, the WebSocket client registry ws_clients,     *)
(* the two asyncio locks, the /ws/telemetry connection handler, the        *)
(* GET /api/state handler and the lifespan shutdown sequence.              *)
(*                                                                         *)
(* Every action is one run of a coroutine from the point where it is       *)
(* resumed to its next suspension point (an await that can suspend), which *)
(* is the unit asyncio schedules.                                          *)
(*                                                                         *)
(* JSON values are tagged records [t, v]; a JSON object is the sequence of *)
(* its <<key, value>> pairs in document order (Python dicts keep it).      *)
(* A list of records built with list(d.values()) is modelled as the set of *)
(* those records: the order of a message's devices is not modelled.        *)
(* asyncio.CancelledError is a BaseException (Python 3.8 and later).       *)
(***************************************************************************)
EXTENDS Integers, Sequences, FiniteSets, TLC

(***************************************************************************)
(* Bounds of the model.                                                    *)
(***************************************************************************)
MaxCycles == 2
NumHandles == 2
MaxBatch == 2

\* POLL_SECONDS, in milliseconds
PollMs == 2000

(***************************************************************************)
(* JSON values and the Python operations the code applies to them.         *)
(***************************************************************************)
Null == [t |-> "null", v |-> 0]
Num(n) == [t |-> "num", v |-> n]
Str(s) == [t |-> "str", v |-> s]
Bool(b) == [t |-> "bool", v |-> b]
Dict(pairs) == [t |-> "dict", v |-> pairs]
List(elems) == [t |-> "list", v |-> elems]
\* an ISO-8601 UTC string, kept as the instant it denotes (epoch milliseconds)
IsoTime(ms) == [t |-> "time", v |-> ms]

EmptyDict == Dict(<<>>)

IsDict(x) == x.t = "dict"

IsNone(x) == x.t = "null"

\* Python truth value: None, False, 0, "", {} and [] are falsy
Truthy(x) ==
  CASE x.t = "null" -> FALSE
    [] x.t = "bool" -> x.v
    [] x.t = "num" -> x.v # 0
    [] x.t = "str" -> x.v # ""
    [] x.t = "time" -> TRUE
    [] x.t \in {"dict", "list"} -> Len(x.v) > 0

\* a or b
Or(a, b) == IF Truthy(a) THEN a ELSE b

\* key in d
Has(d, k) == \E i \in 1..Len(d.v) : d.v[i][1] = k

\* d.get(k)
Get(d, k) ==
  IF Has(d, k)
  THEN d.v[CHOOSE i \in 1..Len(d.v) : d.v[i][1] = k][2]
  ELSE Null

\* dict keys must be hashable
Hashable(x) == x.t \notin {"dict", "list"}

(***************************************************************************)
(* Results of a call: a value, or an exception raised.                     *)
(***************************************************************************)
Return(x) == [k |-> "ok", v |-> x]
Raise(exc) == [k |-> "raise", v |-> exc]
Skip == [k |-> "skip", v |-> Null]

\* The exception classes that occur, and whether "except Exception" catches
\* them: CancelledError derives from BaseException, not from Exception.
IsException(exc) == exc # "CancelledError"

\* "except httpx.HTTPError"
IsHTTPError(exc) == exc = "HTTPError"

(***************************************************************************)
(* Helpers: now_iso, ms_to_iso, extract_nodes, normalize_node.             *)
(***************************************************************************)
now_iso(clk) == IsoTime(10000 + clk * PollMs)

\* ms_to_iso(ms): None for a falsy ms; a non-number makes ms / 1000.0 raise
ms_to_iso(ms) ==
  IF ~Truthy(ms) THEN Return(Null)
  ELSE IF ms.t = "num" THEN Return(IsoTime(ms.v))
  ELSE Raise("TypeError")

extract_nodes(payload) ==
  IF ~IsDict(payload) THEN Raise("AttributeError")
  ELSE LET data == Or(Get(payload, "data"), EmptyDict) IN
    IF ~IsDict(data) THEN Raise("AttributeError")
    ELSE LET nodes == Or(Get(data, "list"), List(<<>>)) IN
      Return(IF nodes.t = "list" THEN nodes.v ELSE <<>>)

\* isinstance(v, dict) and "latitude" in v and "longitude" in v
HasPosition(x) == IsDict(x) /\ Has(x, "latitude") /\ Has(x, "longitude")

\* next((v for v in ds.values() if ...), {}) or {}
FirstModule(ds) ==
  LET hits == {i \in 1..Len(ds.v) : HasPosition(ds.v[i][2])} IN
  IF hits = {} THEN EmptyDict
  ELSE Or(ds.v[CHOOSE i \in hits : \A j \in hits : i <= j][2], EmptyDict)

\* Lines 141-182 of normalize_node: the fields of the canonical record, for a
\* host object and its identifier sn. A device_state or offline position that
\* is truthy but no object makes .values() / .get raise; so does a timestamp
\* that is no number.
DeviceRecord(host, sn, ds, offline_pos, updated_at) ==
  LET base == IF HasPosition(ds) THEN ds ELSE Null
      src == Or(base, FirstModule(ds))
      lat0 == Get(src, "latitude")
      lng0 == Get(src, "longitude")
      fallback == IsNone(lat0) \/ IsNone(lng0)
      batt == Or(Get(src, "battery"), EmptyDict)
  IN [sn |-> sn,
      nickname |-> Or(Get(host, "device_project_callsign"), sn),
      online |-> Bool(Truthy(Get(host, "device_online_status"))),
      lat |-> IF fallback THEN Get(offline_pos, "latitude") ELSE lat0,
      lng |-> IF fallback THEN Get(offline_pos, "longitude") ELSE lng0,
      alt_m |-> Get(src, "height"),
      heading_deg |-> Or(Get(src, "attitude_head"), Get(src, "heading")),
      battery_pct |-> IF IsDict(batt) THEN Get(batt, "capacity_percent") ELSE Null,
      flight_state |-> Get(src, "mode_code"),
      updated_at |-> updated_at]

NormalizeFields(host, sn, clk) ==
  LET ds == Or(Get(host, "device_state"), EmptyDict)
      offline_pos == Or(Get(host, "device_offline_position"), EmptyDict)
  IN
  IF ~IsDict(ds) THEN Raise("AttributeError")
  ELSE IF ~IsDict(offline_pos) THEN Raise("AttributeError")
  ELSE LET ts == ms_to_iso(Get(offline_pos, "timestamp")) IN
    IF ts.k = "raise" THEN ts
    ELSE Return(DeviceRecord(host, sn, ds, offline_pos, Or(ts.v, now_iso(clk))))

\* normalize_node without its "if not sn: return None"
normalize_node_NoGuard(node, clk) ==
  IF ~IsDict(node) THEN Raise("AttributeError")
  ELSE LET host == Or(Get(node, "host"), EmptyDict) IN
    IF ~IsDict(host) THEN Raise("AttributeError")
    ELSE NormalizeFields(host, Get(host, "device_sn"), clk)

\* normalize_node(node): Skip is the skip signal (return None), Return(dev) a
\* canonical record, Raise(exc) an exception escaping the function.
normalize_node(node, clk) ==
  IF ~IsDict(node) THEN Raise("AttributeError")
  ELSE LET host == Or(Get(node, "host"), EmptyDict) IN
    IF ~IsDict(host) THEN Raise("AttributeError")
    ELSE LET sn == Get(host, "device_sn") IN
      IF ~Truthy(sn) THEN Skip
      ELSE NormalizeFields(host, sn, clk)

(***************************************************************************)
(* The upstream feed: the raw records and the documents a fetch returns.   *)
(***************************************************************************)
Host(pairs) == Dict(<< <<"host", Dict(pairs)>> >>)

\* device A, online, position directly in device_state
NodeA1 ==
  Host(<< <<"device_sn", Str("A")>>,
          <<"device_online_status", Bool(TRUE)>>,
          <<"device_project_callsign", Str("Alpha")>>,
          <<"device_state",
            Dict(<< <<"latitude", Num(1)>>, <<"longitude", Num(2)>>,
                    <<"height", Num(30)>>, <<"attitude_head", Num(90)>>,
                    <<"battery", Dict(<< <<"capacity_percent", Num(80)>> >>)>>,
                    <<"mode_code", Num(3)>> >>)>> >>)

\* device A, offline: no device_state, an offline position with a timestamp
NodeA2 ==
  Host(<< <<"device_sn", Str("A")>>,
          <<"device_offline_position",
            Dict(<< <<"latitude", Num(5)>>, <<"longitude", Num(6)>>,
                    <<"timestamp", Num(1500)>> >>)>> >>)

\* device B, position under a module key of device_state
NodeB ==
  Host(<< <<"device_sn", Str("B")>>,
          <<"device_state",
            Dict(<< <<"mode_code", Num(0)>>,
                    <<"0-67-0", Dict(<< <<"latitude", Num(3)>>, <<"longitude", Num(4)>>,
                                        <<"heading", Num(45)>> >>)>> >>)>> >>)

\* records without a usable identifier
NodeNoId == Host(<< <<"device_online_status", Bool(TRUE)>> >>)
NodeEmptyId == Host(<< <<"device_sn", Str("")>>, <<"device_project_callsign", Str("Ghost")>> >>)

\* a malformed record: device B with a device_state that is no object
NodeBad ==
  Host(<< <<"device_sn", Str("B")>>, <<"device_state", Str("offline")>> >>)

FeedNodes == {NodeA1, NodeA2, NodeB, NodeNoId, NodeEmptyId, NodeBad}

\* Records of one device P that differ in where a position is found: the
\* keys device_state carries directly, its nested objects, and the offline
\* position.
DirectKeys ==
  { <<>>,
    << <<"latitude", Num(1)>>, <<"longitude", Num(2)>> >>,
    << <<"latitude", Null>>, <<"longitude", Null>> >>,
    << <<"latitude", Num(1)>>, <<"longitude", Null>> >>,
    << <<"latitude", Num(1)>> >> }

NestedObjects ==
  { <<>>,
    << <<"0-67-0", Dict(<< <<"latitude", Num(3)>>, <<"longitude", Num(4)>> >>)>> >>,
    << <<"battery", Dict(<< <<"capacity_percent", Num(80)>> >>)>>,
       <<"0-67-0", Dict(<< <<"latitude", Num(3)>>, <<"longitude", Num(4)>> >>)>> >>,
    << <<"0-66-0", Dict(<< <<"latitude", Null>>, <<"longitude", Null>> >>)>>,
       <<"0-67-0", Dict(<< <<"latitude", Num(3)>>, <<"longitude", Num(4)>> >>)>> >> }

OfflinePositions ==
  { <<>>,
    << <<"device_offline_position",
         Dict(<< <<"latitude", Num(5)>>, <<"longitude", Num(6)>> >>)>> >> }

PositionNode(direct, nested, offline) ==
  Host(<< <<"device_sn", Str("P")>> >>
       \o (IF direct \o nested = <<>> THEN <<>>
           ELSE << <<"device_state", Dict(direct \o nested)>> >>)
       \o offline)

PositionNodes ==
  {PositionNode(d, n, o) : d \in DirectKeys, n \in NestedObjects, o \in OfflinePositions}

RECURSIVE SeqsUpTo(_, _)
SeqsUpTo(S, n) ==
  IF n = 0 THEN {<<>>}
  ELSE LET shorter == SeqsUpTo(S, n - 1) IN
    shorter \cup {Append(q, x) : q \in {r \in shorter : Len(r) = n - 1}, x \in S}

Topologies(list) == Dict(<< <<"code", Num(0)>>, <<"data", Dict(<< <<"list", list>> >>)>> >>)

\* The documents r.json() can return: a list of up to MaxBatch records, a
\* document without data or without list, a list that is no list, and a body
\* that is JSON but no object.
Payloads ==
  {Topologies(List(q)) : q \in SeqsUpTo(FeedNodes, MaxBatch)}
    \cup {Dict(<< <<"code", Num(0)>> >>),
          Dict(<< <<"data", Null>> >>),
          Topologies(Null),
          Topologies(Dict(<< <<"total", Num(1)>> >>)),
          List(<< NodeA1 >>),
          Dict(<< <<"data", Str("denied")>> >>)}

\* What makes fetch_topologies raise: a transport error, a timeout or a
\* non-2xx status (all httpx.HTTPError), or a body that is no JSON.
FetchErrors == {"HTTPError", "JSONDecodeError"}

(***************************************************************************)
(* State.                                                                  *)
(***************************************************************************)
Handles == 1..NumHandles

\* the task running poller_loop, as an owner or waiter of a lock
PollerTask == 0

\* the task serving GET /api/state, likewise
ApiTask == -1

VARIABLES
  latest_by_sn,      \* the state table: sn -> canonical record
  ws_clients,        \* the registered WebSocket handles
  state_lock,        \* asyncio.Lock: the owner, then the waiters in FIFO order
  ws_clients_lock,   \* asyncio.Lock, likewise
  clock,             \* completed sleeps: the wall clock in poll intervals
  pollPc,            \* where poller_loop is suspended
  pollExc,           \* the exception that ended the poller task, or "none"
  nodes,             \* poller_loop: the fetched list
  norm,              \* the results of normalize_node in this cycle, in order
  updates,           \* poller_loop: updates
  outcome,           \* this cycle: "pending", "fetch_error", "shape_error",
                     \* "record_error", "ok"; "cancelled" once the task ended
  fetches,           \* calls of fetch_topologies in this cycle
  tableAtStart,      \* latest_by_sn when this cycle began
  cycleMsgs,         \* the messages handed to broadcast() in this cycle
  bmsg,              \* broadcast: message
  bstart,            \* broadcast: list(ws_clients) when the loop began
  btodo,             \* broadcast: the handles not yet sent to
  bsent,             \* broadcast: the handles whose send returned
  dead,              \* broadcast: dead
  bdone,             \* the last call of broadcast returned (and ws_clients then)
  wsPc,              \* per handle: where ws_telemetry is suspended
  snapMsg,           \* per handle: the snapshot message send_text is sending
  snapCount,         \* per handle: the snapshot messages handed to send_text
  lifePc,            \* lifespan: "serving", "await_task", "closed", "raised"
  cancelReq,         \* task.cancel() was called and not yet delivered
  http_open,         \* app.state.http is open
  apiPc,             \* api_state: "idle", "wait_state" (for state_lock), "responding"
  apiResp,           \* api_state: the body of the response being returned
  observe,           \* which of the records below are kept: "merges" for
                     \* wholeTables, "views" for view and allOk (fixed by Init)
  wholeTables,       \* every value latest_by_sn had after a completed update()
  view,              \* per handle: what a client holds that replaces records
                     \* by sn as the messages arrive, in send_text order
  allOk              \* per handle: no send_text to it has raised

pollVars == <<pollPc, pollExc, nodes, norm, updates, outcome, fetches, tableAtStart, cycleMsgs>>
bcastVars == <<bmsg, bstart, btodo, bsent, dead, bdone>>
wsVars == <<wsPc, snapMsg, snapCount>>
lifeVars == <<lifePc, cancelReq, http_open>>
apiVars == <<apiPc, apiResp>>
obsVars == <<observe, wholeTables, view, allOk>>
vars == <<latest_by_sn, ws_clients, state_lock, ws_clients_lock, clock,
          pollVars, bcastVars, wsVars, lifeVars, apiVars, obsVars>>

NoMsg == [type |-> "none", devices |-> {}, message |-> ""]
NoReturn == [returned |-> FALSE, clients |-> {}]

\* {"type": "telemetry_update", "devices": list(updates.values())}; before
\* it, a message with every record of the table, and a message with one
\* record of updates only
TelemetryAllDevices(upd, table) ==
  [type |-> "telemetry_update", devices |-> {table[k] : k \in DOMAIN table}, message |-> ""]
TelemetryOneDevice(upd, table) ==
  [type |-> "telemetry_update",
   devices |-> IF DOMAIN upd = {} THEN {} ELSE {upd[CHOOSE k \in DOMAIN upd : TRUE]},
   message |-> ""]
TelemetryUpdate(upd, table) ==
  [type |-> "telemetry_update", devices |-> {upd[k] : k \in DOMAIN upd}, message |-> ""]

\* {"type": "snapshot", "devices": list(latest_by_sn.values())}; before it,
\* a snapshot without the records, and a snapshot read while update() has
\* written one record only
SnapshotEmpty(table) == [type |-> "snapshot", devices |-> {}, message |-> ""]
SnapshotTorn(table) ==
  [type |-> "snapshot",
   devices |-> IF DOMAIN table = {} THEN {} ELSE {table[CHOOSE k \in DOMAIN table : TRUE]},
   message |-> ""]
Snapshot(table) ==
  [type |-> "snapshot", devices |-> {table[k] : k \in DOMAIN table}, message |-> ""]

\* {"type": "error", "message": "HTTP error: ..."} / "Unexpected error: ..."
ErrorMessage(prefix) == [type |-> "error", devices |-> {}, message |-> prefix]

\* Which except clause of poller_loop takes an exception raised in its try;
\* before it, a loop with the httpx.HTTPError clause alone
HandlerNarrow(exc) == IF IsHTTPError(exc) THEN "HTTP error" ELSE "propagate"
Handler(exc) ==
  IF IsHTTPError(exc) THEN "HTTP error"
  ELSE IF IsException(exc) THEN "Unexpected error"
  ELSE "propagate"

\* latest_by_sn.update(updates); before it, a field-by-field merge that keeps
\* the old value of a field the new record leaves null, and an assignment of
\* updates to the table
MergeFields(table, upd) ==
  [k \in DOMAIN table \cup DOMAIN upd |->
     IF k \notin DOMAIN upd THEN table[k]
     ELSE IF k \notin DOMAIN table THEN upd[k]
     ELSE [f \in DOMAIN upd[k] |-> IF IsNone(upd[k][f]) THEN table[k][f] ELSE upd[k][f]]]
MergeReplaceAll(table, upd) == upd
Merge(table, upd) ==
  [k \in DOMAIN table \cup DOMAIN upd |-> IF k \in DOMAIN upd THEN upd[k] ELSE table[k]]

\* updates[dev["sn"]] = dev
Put(upd, dev) == [k \in DOMAIN upd \cup {dev.sn} |-> IF k = dev.sn THEN dev ELSE upd[k]]

\* Lines 217-222: the loop over nodes from index i, with the results so far.
\* The loop stops at the first exception: a raising normalize_node, or an
\* unhashable sn as a key of updates.
RECURSIVE NormalizeAll(_, _, _, _, _)
NormalizeAll(list, i, clk, results, upd) ==
  IF i > Len(list) THEN [k |-> "ok", v |-> "", norm |-> results, updates |-> upd]
  ELSE LET r == normalize_node(list[i], clk) IN
    IF r.k = "raise"
    THEN [k |-> "raise", v |-> r.v, norm |-> Append(results, r), updates |-> upd]
    ELSE IF r.k = "skip"
    THEN NormalizeAll(list, i + 1, clk, Append(results, r), upd)
    ELSE IF ~Hashable(r.v.sn)
    THEN [k |-> "raise", v |-> "TypeError", norm |-> Append(results, r), updates |-> upd]
    ELSE NormalizeAll(list, i + 1, clk, Append(results, r), Put(upd, r.v))

NoUpdates == <<>>

(***************************************************************************)
(* Init: lifespan has created the HTTP client and the poller task, which   *)
(* is suspended in its first fetch; no subscriber has connected.           *)
(***************************************************************************)
Constructed ==
  /\ latest_by_sn = NoUpdates
  /\ ws_clients = {}
  /\ state_lock = <<>>
  /\ ws_clients_lock = <<>>
  /\ clock = 0
  /\ pollPc = "fetch"
  /\ pollExc = "none"
  /\ nodes = <<>>
  /\ norm = <<>>
  /\ updates = NoUpdates
  /\ outcome = "pending"
  /\ fetches = 1
  /\ tableAtStart = NoUpdates
  /\ cycleMsgs = <<>>
  /\ bmsg = NoMsg
  /\ bstart = {}
  /\ btodo = {}
  /\ bsent = {}
  /\ dead = {}
  /\ bdone = NoReturn
  /\ wsPc = [h \in Handles |-> "idle"]
  /\ snapMsg = [h \in Handles |-> NoMsg]
  /\ snapCount = [h \in Handles |-> 0]
  /\ lifePc = "serving"
  /\ cancelReq = FALSE
  /\ http_open = TRUE
  /\ apiPc = "idle"
  /\ apiResp = NoMsg
  /\ wholeTables = {NoUpdates}
  /\ view = [h \in Handles |-> {}]
  /\ allOk = [h \in Handles |-> TRUE]

Init == Constructed /\ observe = {}

\* What a client holds after a message with these records: a record
\* replaces the one with its sn
Received(held, devices) ==
  {r \in held : \A d \in devices : d.sn # r.sn} \cup devices

(***************************************************************************)
(* broadcast(message), called by the poller.                               *)
(***************************************************************************)
\* Lines 196-203 once ws_clients_lock is owned (lock: the queue, the poller
\* at its head): the loop over list(ws_clients) begins; with no client the
\* call returns at once.
BroadcastLoop(lock) ==
  /\ bstart' = ws_clients
  /\ btodo' = ws_clients
  /\ bsent' = {}
  /\ dead' = {}
  /\ IF ws_clients = {}
     THEN /\ ws_clients_lock' = Tail(lock)
          /\ bdone' = [returned |-> TRUE, clients |-> ws_clients]
          /\ pollPc' = "sleep"
     ELSE /\ ws_clients_lock' = lock
          /\ bdone' = NoReturn
          /\ pollPc' = "bcast"

\* Lines 190-195: the call, up to the acquisition of ws_clients_lock (lock:
\* its queue at the call).
BeginBroadcast(msg, lock) ==
  /\ cycleMsgs' = Append(cycleMsgs, msg)
  /\ bmsg' = msg
  /\ IF lock = <<>>
     THEN BroadcastLoop(<<PollerTask>>)
     ELSE /\ ws_clients_lock' = Append(lock, PollerTask)
          /\ pollPc' = "wait_bcast"
          /\ UNCHANGED <<bstart, btodo, bsent, dead, bdone>>

\* An exception leaves poller_loop: the task is done, with that exception
TaskEnds(exc) ==
  /\ pollPc' = "ended"
  /\ pollExc' = exc

\* Lines 232-235: an exception raised inside the try of poller_loop.
HandleRaise(exc, lock) ==
  IF Handler(exc) = "propagate"
  THEN /\ TaskEnds(exc)
       /\ ws_clients_lock' = lock
       /\ UNCHANGED <<cycleMsgs, bcastVars>>
  ELSE /\ BeginBroadcast(ErrorMessage(Handler(exc)), lock)
       /\ pollExc' = pollExc

\* Line 229: "if updates:"; before it, a loop without that test
ShouldBroadcastAlways(upd) == TRUE
ShouldBroadcast(upd) == DOMAIN upd # {}

\* Lines 224-230: the merge under state_lock, then the broadcast of the delta
\* when updates is not empty.
MergeThenBroadcast(upd) ==
  /\ latest_by_sn' = Merge(latest_by_sn, upd)
  /\ wholeTables' = IF "merges" \in observe THEN wholeTables \cup {latest_by_sn'} ELSE wholeTables
  /\ pollExc' = pollExc
  /\ IF ShouldBroadcast(upd)
     THEN BeginBroadcast(TelemetryUpdate(upd, latest_by_sn'), ws_clients_lock)
     ELSE /\ pollPc' = "sleep"
          /\ UNCHANGED <<cycleMsgs, bcastVars, ws_clients_lock>>

(***************************************************************************)
(* poller_loop.                                                            *)
(***************************************************************************)
\* fetch_topologies raises (line 186, 187 or 188)
PollFetchFail(exc) ==
  /\ pollPc = "fetch"
  /\ outcome' = "fetch_error"
  /\ HandleRaise(exc, ws_clients_lock)
  /\ UNCHANGED <<latest_by_sn, ws_clients, state_lock, clock, nodes, norm, updates,
                 fetches, tableAtStart, wsVars, lifeVars, apiVars, obsVars>>

\* fetch_topologies returns payload: lines 215-230 up to the next suspension
PollFetchOk(payload) ==
  /\ pollPc = "fetch"
  /\ LET ex == extract_nodes(payload) IN
     IF ex.k = "raise"
     THEN /\ outcome' = "shape_error"
          /\ HandleRaise(ex.v, ws_clients_lock)
          /\ UNCHANGED <<latest_by_sn, state_lock, nodes, norm, updates, wholeTables>>
     ELSE LET n == NormalizeAll(ex.v, 1, clock, <<>>, NoUpdates) IN
          /\ nodes' = ex.v
          /\ norm' = n.norm
          /\ updates' = n.updates
          /\ IF n.k = "raise"
             THEN /\ outcome' = "record_error"
                  /\ HandleRaise(n.v, ws_clients_lock)
                  /\ UNCHANGED <<latest_by_sn, state_lock, wholeTables>>
             ELSE /\ outcome' = "ok"
                  /\ IF state_lock = <<>>
                     THEN /\ MergeThenBroadcast(n.updates)
                          /\ UNCHANGED state_lock
                     ELSE /\ state_lock' = Append(state_lock, PollerTask)
                          /\ pollPc' = "wait_merge"
                          /\ UNCHANGED <<latest_by_sn, pollExc, cycleMsgs, bcastVars,
                                         ws_clients_lock, wholeTables>>
  /\ UNCHANGED <<ws_clients, clock, fetches, tableAtStart, wsVars, lifeVars,
                 apiVars, observe, view, allOk>>

\* state_lock is handed to the waiting poller: lines 224-230
PollMerge ==
  /\ pollPc = "wait_merge"
  /\ state_lock # <<>> /\ Head(state_lock) = PollerTask
  /\ state_lock' = Tail(state_lock)
  /\ MergeThenBroadcast(updates)
  /\ UNCHANGED <<ws_clients, clock, nodes, norm, updates, outcome, fetches,
                 tableAtStart, wsVars, lifeVars, apiVars, observe, view, allOk>>

\* ws_clients_lock is handed to the waiting poller: line 196
PollBroadcastAcquired ==
  /\ pollPc = "wait_bcast"
  /\ ws_clients_lock # <<>> /\ Head(ws_clients_lock) = PollerTask
  /\ BroadcastLoop(ws_clients_lock)
  /\ UNCHANGED <<latest_by_sn, ws_clients, state_lock, clock, pollExc, nodes, norm,
                 updates, outcome, fetches, tableAtStart, cycleMsgs, bmsg, wsVars,
                 lifeVars, apiVars, obsVars>>

\* broadcast without the try around send_text's failure isolation: the first
\* failing send ends the loop
BroadcastSendAbort(h, ok) ==
  /\ pollPc = "bcast"
  /\ h \in btodo
  /\ btodo' = IF ok THEN btodo \ {h} ELSE {}
  /\ bsent' = IF ok THEN bsent \cup {h} ELSE bsent
  /\ dead' = IF ok THEN dead ELSE dead \cup {h}
  /\ IF btodo' = {}
     THEN /\ ws_clients' = ws_clients \ dead'
          /\ ws_clients_lock' = Tail(ws_clients_lock)
          /\ bdone' = [returned |-> TRUE, clients |-> ws_clients']
          /\ pollPc' = "sleep"
     ELSE /\ UNCHANGED <<ws_clients, ws_clients_lock, bdone>>
          /\ pollPc' = "bcast"
  /\ view' = IF "views" \in observe /\ ok /\ bmsg.type = "telemetry_update"
             THEN [view EXCEPT ![h] = Received(@, bmsg.devices)]
             ELSE view
  /\ allOk' = IF "views" \in observe /\ ~ok THEN [allOk EXCEPT ![h] = FALSE] ELSE allOk
  /\ UNCHANGED <<latest_by_sn, state_lock, clock, pollExc, nodes, norm, updates,
                 outcome, fetches, tableAtStart, cycleMsgs, bmsg, bstart, wsVars,
                 lifeVars, apiVars, observe, wholeTables>>

\* Lines 197-203: one send_text returns (ok) or raises; after the last one
\* the dead handles are discarded and the lock is released.
BroadcastSend(h, ok) ==
  /\ pollPc = "bcast"
  /\ h \in btodo
  /\ btodo' = btodo \ {h}
  /\ bsent' = IF ok THEN bsent \cup {h} ELSE bsent
  /\ dead' = IF ok THEN dead ELSE dead \cup {h}
  /\ IF btodo' = {}
     THEN /\ ws_clients' = ws_clients \ dead'
          /\ ws_clients_lock' = Tail(ws_clients_lock)
          /\ bdone' = [returned |-> TRUE, clients |-> ws_clients']
          /\ pollPc' = "sleep"
     ELSE /\ UNCHANGED <<ws_clients, ws_clients_lock, bdone>>
          /\ pollPc' = "bcast"
  /\ view' = IF "views" \in observe /\ ok /\ bmsg.type = "telemetry_update"
             THEN [view EXCEPT ![h] = Received(@, bmsg.devices)]
             ELSE view
  /\ allOk' = IF "views" \in observe /\ ~ok THEN [allOk EXCEPT ![h] = FALSE] ELSE allOk
  /\ UNCHANGED <<latest_by_sn, state_lock, clock, pollExc, nodes, norm, updates,
                 outcome, fetches, tableAtStart, cycleMsgs, bmsg, bstart, wsVars,
                 lifeVars, apiVars, observe, wholeTables>>

\* Line 237 returns and the loop starts its next cycle: line 214; before it,
\* a loop whose broadcast runs as a task of its own, so that the next cycle
\* starts while the fan-out is still going on
PollWakeOverlap ==
  /\ pollPc \in {"sleep", "bcast"}
  /\ clock + 1 < MaxCycles
  /\ clock' = clock + 1
  /\ pollPc' = "fetch"
  /\ nodes' = <<>>
  /\ norm' = <<>>
  /\ updates' = NoUpdates
  /\ outcome' = "pending"
  /\ fetches' = 1
  /\ tableAtStart' = latest_by_sn
  /\ cycleMsgs' = <<>>
  /\ bmsg' = NoMsg
  /\ bstart' = {}
  /\ btodo' = {}
  /\ bsent' = {}
  /\ dead' = {}
  /\ bdone' = NoReturn
  /\ UNCHANGED <<latest_by_sn, ws_clients, state_lock, ws_clients_lock, pollExc,
                 wsVars, lifeVars, apiVars, obsVars>>

PollWake ==
  /\ pollPc = "sleep"
  /\ clock + 1 < MaxCycles
  /\ clock' = clock + 1
  /\ pollPc' = "fetch"
  /\ nodes' = <<>>
  /\ norm' = <<>>
  /\ updates' = NoUpdates
  /\ outcome' = "pending"
  /\ fetches' = 1
  /\ tableAtStart' = latest_by_sn
  /\ cycleMsgs' = <<>>
  /\ bmsg' = NoMsg
  /\ bstart' = {}
  /\ btodo' = {}
  /\ bsent' = {}
  /\ dead' = {}
  /\ bdone' = NoReturn
  /\ UNCHANGED <<latest_by_sn, ws_clients, state_lock, ws_clients_lock, pollExc,
                 wsVars, lifeVars, apiVars, obsVars>>

RemoveTask(lock, task) == SelectSeq(lock, LAMBDA x : x # task)

\* task.cancel() is delivered: CancelledError is raised at the await the
\* poller is suspended in. A pending acquire leaves the lock's queue, an
\* "async with" that is left releases its lock; the fetch, the merge and the
\* telemetry broadcast are inside the try, the error broadcast and the sleep
\* are not.
PollCancelled ==
  /\ cancelReq
  /\ pollPc \in {"fetch", "wait_merge", "wait_bcast", "bcast", "sleep"}
  /\ cancelReq' = FALSE
  /\ state_lock' = IF pollPc = "wait_merge" THEN RemoveTask(state_lock, PollerTask)
                   ELSE state_lock
  /\ LET lock == IF pollPc \in {"wait_bcast", "bcast"}
                 THEN RemoveTask(ws_clients_lock, PollerTask)
                 ELSE ws_clients_lock
         inTry == \/ pollPc \in {"fetch", "wait_merge"}
                  \/ pollPc \in {"wait_bcast", "bcast"} /\ bmsg.type = "telemetry_update"
     IN IF inTry /\ Handler("CancelledError") # "propagate"
        THEN /\ BeginBroadcast(ErrorMessage(Handler("CancelledError")), lock)
             /\ UNCHANGED <<pollExc, nodes, norm, updates, outcome, fetches, tableAtStart>>
        ELSE \* the task is done and its frame, with the locals, is gone
             /\ TaskEnds("CancelledError")
             /\ ws_clients_lock' = lock
             /\ nodes' = <<>>
             /\ norm' = <<>>
             /\ updates' = NoUpdates
             /\ outcome' = "cancelled"
             /\ fetches' = 0
             /\ tableAtStart' = latest_by_sn
             /\ cycleMsgs' = <<>>
             /\ bmsg' = NoMsg
             /\ bstart' = {}
             /\ btodo' = {}
             /\ bsent' = {}
             /\ dead' = {}
             /\ bdone' = NoReturn
  /\ UNCHANGED <<latest_by_sn, ws_clients, clock, wsVars, lifePc, http_open,
                 apiVars, obsVars>>

(***************************************************************************)
(* ws_telemetry(ws), one call per handle.                                  *)
(***************************************************************************)
SetPc(h, pc) == wsPc' = [wsPc EXCEPT ![h] = pc]

\* Line 285: the snapshot is built and handed to send_text
SendSnapshot(h) ==
  /\ snapMsg' = [snapMsg EXCEPT ![h] = Snapshot(latest_by_sn)]
  /\ snapCount' = [snapCount EXCEPT ![h] = @ + 1]
  /\ view' = IF "views" \in observe THEN [view EXCEPT ![h] = Received(@, snapMsg'[h].devices)]
             ELSE view

\* Lines 283-285 after the handle is registered: state_lock is taken if it is
\* free, the snapshot is built and handed to send_text; otherwise the
\* handler queues for the lock.
WsAfterAdd(h) ==
  IF state_lock = <<>>
  THEN /\ state_lock' = <<h>>
       /\ SendSnapshot(h)
       /\ SetPc(h, "snap_send")
  ELSE /\ state_lock' = Append(state_lock, h)
       /\ UNCHANGED <<snapMsg, snapCount, view>>
       /\ SetPc(h, "wait_state")

\* ws.accept() returns: lines 280-285 up to the next suspension
WsAccept(h) ==
  /\ wsPc[h] = "idle"
  /\ IF ws_clients_lock = <<>>
     THEN /\ ws_clients' = ws_clients \cup {h}
          /\ UNCHANGED ws_clients_lock
          /\ WsAfterAdd(h)
     ELSE /\ ws_clients_lock' = Append(ws_clients_lock, h)
          /\ SetPc(h, "wait_add")
          /\ UNCHANGED <<ws_clients, state_lock, snapMsg, snapCount, view>>
  /\ UNCHANGED <<latest_by_sn, clock, pollVars, bcastVars, lifeVars, apiVars,
                 observe, wholeTables, allOk>>

\* ws_clients_lock is handed to the waiting handler: lines 281-285
WsAdd(h) ==
  /\ wsPc[h] = "wait_add"
  /\ ws_clients_lock # <<>> /\ Head(ws_clients_lock) = h
  /\ ws_clients_lock' = Tail(ws_clients_lock)
  /\ ws_clients' = ws_clients \cup {h}
  /\ WsAfterAdd(h)
  /\ UNCHANGED <<latest_by_sn, clock, pollVars, bcastVars, lifeVars, apiVars,
                 observe, wholeTables, allOk>>

\* state_lock is handed to the waiting handler: line 285
WsSnapshotStart(h) ==
  /\ wsPc[h] = "wait_state"
  /\ state_lock # <<>> /\ Head(state_lock) = h
  /\ SendSnapshot(h)
  /\ SetPc(h, "snap_send")
  /\ UNCHANGED <<latest_by_sn, ws_clients, state_lock, ws_clients_lock, clock,
                 pollVars, bcastVars, lifeVars, apiVars, observe, wholeTables, allOk>>

\* Before it, a handler that takes state_lock with acquire() and release()
\* and no try/finally: a raising send_text leaves the lock held.
WsSnapshotDoneLeak(h, ok) ==
  /\ wsPc[h] = "snap_send"
  /\ state_lock' = IF ok THEN Tail(state_lock) ELSE state_lock
  /\ snapMsg' = [snapMsg EXCEPT ![h] = NoMsg]
  /\ SetPc(h, IF ok THEN "receive" ELSE "raised")
  /\ allOk' = IF "views" \in observe /\ ~ok THEN [allOk EXCEPT ![h] = FALSE] ELSE allOk
  /\ UNCHANGED <<latest_by_sn, ws_clients, ws_clients_lock, clock, pollVars,
                 bcastVars, snapCount, lifeVars, apiVars, observe, wholeTables, view>>

\* The snapshot's send_text returns (ok) or raises; state_lock is released.
\* The send is outside the try of line 287: an exception ends the handler
\* without its finally clause.
WsSnapshotDone(h, ok) ==
  /\ wsPc[h] = "snap_send"
  /\ state_lock' = Tail(state_lock)
  /\ snapMsg' = [snapMsg EXCEPT ![h] = NoMsg]
  /\ SetPc(h, IF ok THEN "receive" ELSE "raised")
  /\ allOk' = IF "views" \in observe /\ ~ok THEN [allOk EXCEPT ![h] = FALSE] ELSE allOk
  /\ UNCHANGED <<latest_by_sn, ws_clients, ws_clients_lock, clock, pollVars,
                 bcastVars, snapCount, lifeVars, apiVars, observe, wholeTables, view>>

\* receive_text raises (the client went away): lines 291-295
WsDisconnect(h) ==
  /\ wsPc[h] = "receive"
  /\ IF ws_clients_lock = <<>>
     THEN /\ ws_clients' = ws_clients \ {h}
          /\ UNCHANGED ws_clients_lock
          /\ SetPc(h, "done")
     ELSE /\ ws_clients_lock' = Append(ws_clients_lock, h)
          /\ UNCHANGED ws_clients
          /\ SetPc(h, "wait_discard")
  /\ UNCHANGED <<latest_by_sn, state_lock, clock, pollVars, bcastVars, snapMsg, snapCount,
                 lifeVars, apiVars, obsVars>>

\* ws_clients_lock is handed to the handler waiting in its finally: line 295
WsDiscard(h) ==
  /\ wsPc[h] = "wait_discard"
  /\ ws_clients_lock # <<>> /\ Head(ws_clients_lock) = h
  /\ ws_clients_lock' = Tail(ws_clients_lock)
  /\ ws_clients' = ws_clients \ {h}
  /\ SetPc(h, "done")
  /\ UNCHANGED <<latest_by_sn, state_lock, clock, pollVars, bcastVars, snapMsg, snapCount,
                 lifeVars, apiVars, obsVars>>

(***************************************************************************)
(* lifespan: the shutdown half, lines 87-94.                               *)
(***************************************************************************)
\* task.cancel(), then "await task" suspends
Shutdown ==
  /\ lifePc = "serving"
  /\ lifePc' = "await_task"
  /\ cancelReq' = (pollPc # "ended")
  /\ UNCHANGED <<latest_by_sn, ws_clients, state_lock, ws_clients_lock, clock,
                 pollVars, bcastVars, wsVars, http_open, apiVars, obsVars>>

\* "await task" raises the exception the task ended with; "except Exception:
\* pass" swallows it and aclose() runs, or it leaves the finally clause.
LifespanAwaitTask ==
  /\ lifePc = "await_task"
  /\ pollPc = "ended"
  /\ IF IsException(pollExc)
     THEN /\ http_open' = FALSE
          /\ lifePc' = "closed"
     ELSE /\ http_open' = http_open
          /\ lifePc' = "raised"
  /\ UNCHANGED <<latest_by_sn, ws_clients, state_lock, ws_clients_lock, clock,
                 pollVars, bcastVars, wsVars, cancelReq, apiVars, obsVars>>

(***************************************************************************)
(* api_state(): GET /api/state, lines 251-254.                             *)
(***************************************************************************)
\* Line 254 under state_lock: the response is built from the table and
\* returned to the server, which sends it
ApiRespond ==
  /\ apiResp' = Snapshot(latest_by_sn)
  /\ apiPc' = "responding"

\* A request arrives: the lock is taken at once and the response returned
\* with no suspension in between, or the request queues for the lock.
ApiRequest ==
  /\ apiPc = "idle"
  /\ IF state_lock = <<>>
     THEN /\ ApiRespond
          /\ UNCHANGED state_lock
     ELSE /\ state_lock' = Append(state_lock, ApiTask)
          /\ apiPc' = "wait_state"
          /\ UNCHANGED apiResp
  /\ UNCHANGED <<latest_by_sn, ws_clients, ws_clients_lock, clock, pollVars,
                 bcastVars, wsVars, lifeVars, obsVars>>

\* state_lock is handed to the waiting request: line 254
ApiRead ==
  /\ apiPc = "wait_state"
  /\ state_lock # <<>> /\ Head(state_lock) = ApiTask
  /\ state_lock' = Tail(state_lock)
  /\ ApiRespond
  /\ UNCHANGED <<latest_by_sn, ws_clients, ws_clients_lock, clock, pollVars,
                 bcastVars, wsVars, lifeVars, obsVars>>

\* The response has been sent
ApiDone ==
  /\ apiPc = "responding"
  /\ apiPc' = "idle"
  /\ apiResp' = NoMsg
  /\ UNCHANGED <<latest_by_sn, ws_clients, state_lock, ws_clients_lock, clock,
                 pollVars, bcastVars, wsVars, lifeVars, obsVars>>

(***************************************************************************)
(* The specification.                                                      *)
(***************************************************************************)
\* The steps of the poller and of the WebSocket handlers while the
\* application serves
NextServing ==
  \/ \E exc \in FetchErrors : PollFetchFail(exc)
  \/ \E payload \in Payloads : PollFetchOk(payload)
  \/ PollMerge
  \/ PollBroadcastAcquired
  \/ \E h \in Handles, ok \in BOOLEAN : BroadcastSend(h, ok)
  \/ PollWake
  \/ \E h \in Handles : WsAccept(h)
  \/ \E h \in Handles : WsAdd(h)
  \/ \E h \in Handles : WsSnapshotStart(h)
  \/ \E h \in Handles, ok \in BOOLEAN : WsSnapshotDone(h, ok)
  \/ \E h \in Handles : WsDisconnect(h)
  \/ \E h \in Handles : WsDiscard(h)

Next ==
  \/ NextServing
  \/ PollCancelled
  \/ Shutdown
  \/ LifespanAwaitTask

Spec == Init /\ [][Next]_vars

\* The serving application with a client of GET /api/state and WebSocket
\* clients that stay connected, and the record of the table after each merge
InitApi == Constructed /\ observe = {"merges"}

NextApi ==
  \/ \E exc \in FetchErrors : PollFetchFail(exc)
  \/ \E payload \in Payloads : PollFetchOk(payload)
  \/ PollMerge
  \/ PollBroadcastAcquired
  \/ \E h \in Handles, ok \in BOOLEAN : BroadcastSend(h, ok)
  \/ PollWake
  \/ \E h \in Handles : WsAccept(h)
  \/ \E h \in Handles : WsAdd(h)
  \/ \E h \in Handles : WsSnapshotStart(h)
  \/ \E h \in Handles, ok \in BOOLEAN : WsSnapshotDone(h, ok)
  \/ ApiRequest
  \/ ApiRead
  \/ ApiDone

SpecApi == InitApi /\ [][NextApi]_vars

\* Every task that takes a lock: the poller, the WebSocket handlers, the
\* GET /api/state client and the shutdown, with a feed of an empty list, one
\* record or one malformed record
LockPayloads ==
  {Topologies(List(<<>>))} \cup {Topologies(List(<<node>>)) : node \in {NodeA1, NodeBad}}

NextLocks ==
  \/ \E exc \in FetchErrors : PollFetchFail(exc)
  \/ \E payload \in LockPayloads : PollFetchOk(payload)
  \/ PollMerge
  \/ PollBroadcastAcquired
  \/ \E h \in Handles, ok \in BOOLEAN : BroadcastSend(h, ok)
  \/ PollWake
  \/ PollCancelled
  \/ \E h \in Handles : WsAccept(h)
  \/ \E h \in Handles : WsAdd(h)
  \/ \E h \in Handles : WsSnapshotStart(h)
  \/ \E h \in Handles, ok \in BOOLEAN : WsSnapshotDone(h, ok)
  \/ \E h \in Handles : WsDisconnect(h)
  \/ \E h \in Handles : WsDiscard(h)
  \/ ApiRequest
  \/ ApiRead
  \/ ApiDone
  \/ Shutdown
  \/ LifespanAwaitTask

SpecLocks == Init /\ [][NextLocks]_vars

\* The poller alone, fed one record of device P per cycle
NextPosition ==
  \/ \E node \in PositionNodes : PollFetchOk(Topologies(List(<<node>>)))
  \/ PollWake

SpecPosition == Init /\ [][NextPosition]_vars

\* The serving application under the event loop's scheduling: a task that
\* can run does run. The fetch ends within the client's timeout, the sleep
\* ends, a task handed a lock resumes, and every send_text returns or
\* raises; when clients connect and disconnect is up to them.
Fairness ==
  /\ WF_vars((\E exc \in FetchErrors : PollFetchFail(exc))
             \/ (\E payload \in Payloads : PollFetchOk(payload)))
  /\ WF_vars(PollMerge)
  /\ WF_vars(PollBroadcastAcquired)
  /\ WF_vars(\E h \in Handles, ok \in BOOLEAN : BroadcastSend(h, ok))
  /\ WF_vars(PollWake)
  /\ \A h \in Handles :
       /\ WF_vars(WsAdd(h))
       /\ WF_vars(WsSnapshotStart(h))
       /\ WF_vars(\E ok \in BOOLEAN : WsSnapshotDone(h, ok))
       /\ WF_vars(WsDiscard(h))

SpecLive == Init /\ [][NextServing]_vars /\ Fairness

\* The serving application, and the record of each client's view
InitViews == Constructed /\ observe = {"views"}

SpecViews == InitViews /\ [][NextServing]_vars

(***************************************************************************)
(* Properties.                                                             *)
(***************************************************************************)
AllRecords(table) == {table[k] : k \in DOMAIN table}

MsgTypes(msgs) == [i \in 1..Len(msgs) |-> msgs[i].type]

\* C1: a poll cycle whose fetch fails leaves the state table as it was when
\* the cycle began, hands exactly one message to broadcast, an error and no
\* telemetry_update, makes no second fetch, and then sleeps.
C1_FetchFailureContained ==
  outcome = "fetch_error" =>
    /\ latest_by_sn = tableAtStart
    /\ MsgTypes(cycleMsgs) = <<"error">>
    /\ fetches = 1
    /\ pollPc \in {"wait_bcast", "bcast", "sleep"}
    /\ bdone.returned => pollPc = "sleep"

C1_Witness ==
  /\ outcome = "fetch_error"
  /\ pollPc = "sleep"
  /\ clock > 0
  /\ DOMAIN latest_by_sn # {}
  /\ bsent # {}

\* C2: one call of broadcast attempts every handle registered when its loop
\* began (the registry does not change under it), delivers to every handle
\* whose send does not fail, and returns with the registry equal to the
\* membership at its start minus exactly the handles whose send failed.
C2_BroadcastIsolation ==
  /\ pollPc = "bcast" =>
       /\ ws_clients = bstart
       /\ bsent \cup dead \cup btodo = bstart
  /\ bdone.returned =>
       /\ btodo = {}
       /\ bsent \cup dead = bstart
       /\ bsent \cap dead = {}
       /\ bdone.clients = bstart \ dead

C2_Witness ==
  /\ bdone.returned
  /\ dead # {}
  /\ bsent # {}

\* C3: a cycle whose update set is empty (no list, an empty list, or every
\* record skipped) leaves the state table unchanged and hands no message to
\* broadcast; the poller only waits for state_lock, if it is taken, and sleeps.
C3_EmptyUpdateIsSilent ==
  (outcome = "ok" /\ DOMAIN updates = {}) =>
    /\ latest_by_sn = tableAtStart
    /\ cycleMsgs = <<>>
    /\ pollPc \in {"wait_merge", "sleep"}

C3_Witness ==
  /\ outcome = "ok"
  /\ DOMAIN updates = {}
  /\ Len(nodes) = MaxBatch
  /\ pollPc = "sleep"
  /\ DOMAIN latest_by_sn # {}
  /\ ws_clients # {}

\* the last result of normalize_node for identifier k in this cycle
LastNormalized(k) ==
  LET hits == {i \in 1..Len(norm) : norm[i].k = "ok" /\ norm[i].v.sn = k} IN
  norm[CHOOSE i \in hits : \A j \in hits : j <= i].v

Merged == outcome = "ok" /\ pollPc \in {"wait_bcast", "bcast", "sleep"}

\* C4: once a successful cycle has merged, the entry of every id of its update
\* set is the record normalized in this cycle, whole, and every other entry
\* is what it was when the cycle began.
C4_WholeRecordReplace ==
  Merged =>
    /\ DOMAIN latest_by_sn = DOMAIN tableAtStart \cup DOMAIN updates
    /\ \A k \in DOMAIN updates : latest_by_sn[k] = LastNormalized(k)
    /\ \A k \in DOMAIN tableAtStart \ DOMAIN updates : latest_by_sn[k] = tableAtStart[k]

C4_Witness ==
  /\ Merged
  /\ pollPc = "sleep"
  /\ \E k \in DOMAIN updates \cap DOMAIN tableAtStart :
       /\ ~IsNone(tableAtStart[k].alt_m)
       /\ IsNone(latest_by_sn[k].alt_m)
  /\ DOMAIN tableAtStart \ DOMAIN updates # {}

\* C5: no step removes an id from the state table.
C5_TableNeverShrinks ==
  [][DOMAIN latest_by_sn \subseteq DOMAIN latest_by_sn']_vars

C5_Witness ==
  /\ clock > 0
  /\ outcome \in {"fetch_error", "shape_error", "record_error"}
  /\ pollPc = "sleep"
  /\ Cardinality(DOMAIN latest_by_sn) = 2
  /\ \E h \in Handles : wsPc[h] = "done"

\* a raw record without a device identifier: device_sn absent, null or ""
MissingId(node) ==
  /\ IsDict(node)
  /\ LET host == Get(node, "host") IN
     \/ IsNone(host)
     \/ /\ IsDict(host)
        /\ LET sn == Get(host, "device_sn") IN IsNone(sn) \/ sn = Str("")

\* C6: normalize_node skips every record without a device identifier, and
\* every key of the state table is a non-empty identifier, the sn of the
\* record stored under it.
C6_NoNullKey ==
  /\ \A i \in 1..Len(norm) : MissingId(nodes[i]) => norm[i] = Skip
  /\ \A k \in DOMAIN latest_by_sn :
       /\ k.t = "str" /\ k.v # ""
       /\ latest_by_sn[k].sn = k

C6_Witness ==
  /\ NodeNoId \in {nodes[i] : i \in 1..Len(nodes)}
  /\ NodeEmptyId \in {nodes[i] : i \in 1..Len(nodes)}
  /\ Len(norm) = Len(nodes)
  /\ DOMAIN latest_by_sn # {}

\* a raw record of the expected shape: an object with a host object, a
\* non-empty string device_sn, and device_state and device_offline_position
\* absent or objects
WellFormed(node) ==
  /\ IsDict(node)
  /\ IsDict(Get(node, "host"))
  /\ LET host == Get(node, "host") IN
     /\ Get(host, "device_sn").t = "str"
     /\ Get(host, "device_sn").v # ""
     /\ Get(host, "device_state").t \in {"null", "dict"}
     /\ Get(host, "device_offline_position").t \in {"null", "dict"}

IdOf(node) == Get(Get(node, "host"), "device_sn")

\* C7: a malformed record of a fetched batch is dropped silently: the cycle
\* hands no error message to broadcast, and the well-formed records of the
\* batch are merged into the state table and broadcast.
C7_MalformedRecordDropped ==
  (/\ pollPc = "sleep"
   /\ outcome \in {"ok", "record_error"}
   /\ \E i \in 1..Len(nodes) : ~WellFormed(nodes[i]))
  =>
    /\ \A i \in 1..Len(cycleMsgs) : cycleMsgs[i].type # "error"
    /\ \A i \in 1..Len(nodes) :
         WellFormed(nodes[i]) =>
           /\ IdOf(nodes[i]) \in DOMAIN latest_by_sn
           /\ \E j \in 1..Len(cycleMsgs) :
                /\ cycleMsgs[j].type = "telemetry_update"
                /\ \E d \in cycleMsgs[j].devices : d.sn = IdOf(nodes[i])

\* C8: a handler hands exactly one snapshot message to send_text, once it is
\* registered and owns state_lock, and while the send is in flight the
\* message holds exactly the records of the state table.
C8_OneSnapshotOfTheTable ==
  \A h \in Handles :
    /\ snapCount[h] <= 1
    /\ snapCount[h] = 1 <=> wsPc[h] \in {"snap_send", "receive", "raised", "wait_discard", "done"}
    /\ wsPc[h] = "snap_send" =>
         /\ snapMsg[h].type = "snapshot"
         /\ snapMsg[h].devices = AllRecords(latest_by_sn)

C8_Witness ==
  \E h \in Handles :
    /\ wsPc[h] = "snap_send"
    /\ clock > 0
    /\ Cardinality(snapMsg[h].devices) = 2
    /\ pollPc = "wait_merge"

\* the identifiers of the fetched batch
BatchIds == {IdOf(nodes[i]) : i \in {j \in 1..Len(nodes) : IsDict(nodes[j]) /\ IsDict(Get(nodes[j], "host"))}}

\* C9: a cycle with a non-empty update set hands exactly one message to
\* broadcast, a telemetry_update holding exactly one record per id of the
\* update set, that cycle's record, and no record of an id that was not in
\* the fetched batch.
C9_DeltaBroadcast ==
  (Merged /\ DOMAIN updates # {}) =>
    /\ MsgTypes(cycleMsgs) = <<"telemetry_update">>
    /\ \A k \in DOMAIN updates :
         {d \in cycleMsgs[1].devices : d.sn = k} = {LastNormalized(k)}
    /\ \A d \in cycleMsgs[1].devices : d.sn \in DOMAIN updates \cap BatchIds

C9_Witness ==
  /\ Merged
  /\ pollPc = "sleep"
  /\ DOMAIN updates # {}
  /\ DOMAIN latest_by_sn \ DOMAIN updates # {}
  /\ bsent # {}

\* C10: once the shutdown sequence has finished, the poller task has ended
\* and the upstream HTTP client is closed.
C10_ShutdownClosesClient ==
  lifePc \in {"closed", "raised"} => (pollPc = "ended" /\ ~http_open)

Range(q) == {q[i] : i \in 1..Len(q)}

\* C11: nothing but the upstream fetch holds the poller up: attaching,
\* detaching or snapshot-receiving subscribers never make the poller wait
\* for a lock before its merge or its broadcast.
C11_SubscribersNeverDelayPoller ==
  pollPc \notin {"wait_merge", "wait_bcast"}

\* C12: poll cycles are strictly sequential. A cycle starts only from the
\* sleep of the cycle before it, one interval later, after a single fetch,
\* with the merge applied, with every send of its broadcast returned or
\* failed and the broadcast call returned, and with no lock held or awaited
\* by the poller.
C12_CyclesSequential ==
  [][(pollPc' = "fetch" /\ (pollPc # "fetch" \/ clock' # clock))
     => /\ pollPc = "sleep"
        /\ clock' = clock + 1
        /\ fetches = 1
        /\ outcome = "ok" => latest_by_sn = Merge(tableAtStart, updates)
        /\ outcome # "ok" => latest_by_sn = tableAtStart
        /\ btodo = {}
        /\ cycleMsgs # <<>> => (bdone.returned /\ bsent \cup dead = bstart)
        /\ Len(cycleMsgs) <= 1
        /\ PollerTask \notin Range(state_lock) \cup Range(ws_clients_lock)]_vars

\* a second cycle is fetching, after a cycle that changed the table with
\* subscribers registered
C12_Witness ==
  /\ pollPc = "fetch"
  /\ clock >= 1
  /\ latest_by_sn # NoUpdates
  /\ ws_clients # {}

\* the record sets a reader may see: the table after each completed merge
WholeReads == {AllRecords(t) : t \in wholeTables}

\* C13: every snapshot read, by GET /api/state and by a connecting
\* WebSocket handler, returns the records of the table as it was after a
\* whole number of completed merges (never a part of one cycle's updates),
\* and the table itself is always such a table.
C13_ReadsSeeWholeMerges ==
  /\ latest_by_sn \in wholeTables
  /\ apiPc = "responding" => (apiResp.type = "snapshot" /\ apiResp.devices \in WholeReads)
  /\ \A h \in Handles : wsPc[h] = "snap_send" => snapMsg[h].devices \in WholeReads

\* a request that queued behind a snapshot send and ahead of the poller's
\* merge of a second cycle has read the table, while a handler's snapshot
\* of the same table is on its way
C13_Witness ==
  /\ apiPc = "responding"
  /\ apiResp.devices # {}
  /\ pollPc = "wait_merge"
  /\ updates # NoUpdates
  /\ \E h \in Handles : wsPc[h] = "snap_send" /\ snapMsg[h].devices # {}

\* C14: while no shutdown is requested and every send returns or fails, the
\* poller task never ends, and every cycle (below the bound of the model)
\* is followed by the fetch of the next one, whatever the cycle's outcome.
C14_PollerNeverStops ==
  /\ [](pollPc # "ended")
  /\ \A c \in 0..(MaxCycles - 2) : (clock = c) ~> (clock = c + 1 /\ pollPc = "fetch")

\* a failed fetch is being reported to the clients, a handler is sending
\* its snapshot, and a cycle is still to come
C14_Witness ==
  /\ outcome = "fetch_error"
  /\ pollPc = "bcast"
  /\ bmsg.type = "error"
  /\ clock + 1 < MaxCycles
  /\ \E h \in Handles : wsPc[h] = "snap_send"

\* the coordinates an object gives: both latitude and longitude, not null
Coordinates(x) == <<Get(x, "latitude"), Get(x, "longitude")>>
YieldsCoordinates(x) ==
  IsDict(x) /\ ~IsNone(Get(x, "latitude")) /\ ~IsNone(Get(x, "longitude"))

\* where the position of a record is to come from: (a) device_state itself,
\* (b) the first nested object that carries latitude and longitude, (c) the
\* offline position
PositionOf(node) ==
  LET host == Get(node, "host")
      ds == Or(Get(host, "device_state"), EmptyDict)
      nested == FirstModule(ds)
      offline_pos == Or(Get(host, "device_offline_position"), EmptyDict)
  IN IF YieldsCoordinates(ds) THEN Coordinates(ds)
     ELSE IF YieldsCoordinates(nested) THEN Coordinates(nested)
     ELSE Coordinates(offline_pos)

\* C15: the position of a normalized record is resolved in the order (a),
\* (b), (c): the offline coordinates are returned only when neither
\* device_state nor a nested object yields coordinates, and the nested
\* object's coordinates are returned whenever device_state itself yields
\* none.
C15_PositionOrder ==
  \A i \in 1..Len(norm) :
    norm[i].k = "ok" => <<norm[i].v.lat, norm[i].v.lng>> = PositionOf(nodes[i])

\* C16: a failure inside a poll cycle that is no upstream fetch failure (a
\* record that makes the normalization raise) is not swallowed: it ends the
\* poller task, and is not reported to the clients as a fetch failure is.
C16_InternalFailureEndsPoller ==
  outcome = "record_error" => (pollPc = "ended" /\ cycleMsgs = <<>>)

\* C17: the snapshot is the first message sent to a handle: no broadcast
\* message (telemetry_update or error) has been sent to a handle whose
\* snapshot send has not yet begun or not yet completed.
C17_SnapshotFirst ==
  \A h \in Handles : h \in bsent => wsPc[h] \notin {"wait_state", "snap_send"}

\* the handlers whose client is registered, has its snapshot and has seen
\* no send fail
LiveSubscribers ==
  {h \in ws_clients : wsPc[h] \in {"receive", "wait_discard"} /\ allOk[h]}

\* C18: no update is missed by a live subscriber: whenever the poller
\* sleeps, the view a registered client builds from its snapshot and its
\* telemetry_update messages, in send order, replacing records by sn,
\* holds exactly the records of the table.
C18_NoUpdateMissed ==
  pollPc = "sleep" => \A h \in LiveSubscribers : view[h] = AllRecords(latest_by_sn)

\* a client that got its snapshot in an earlier cycle has been sent the
\* telemetry_update of a cycle that brought two records
C18_Witness ==
  /\ pollPc = "sleep"
  /\ clock >= 1
  /\ bmsg.type = "telemetry_update"
  /\ Cardinality(bmsg.devices) = 2
  /\ tableAtStart # latest_by_sn
  /\ \E h \in LiveSubscribers : h \in bsent /\ view[h] # {}

\* C19: once a connection handler has terminated, by the client's
\* disconnect or by the failure of its snapshot send, its handle is not in
\* ws_clients.
C19_TerminatedHandlerUnregistered ==
  \A h \in Handles : wsPc[h] \in {"done", "raised"} => h \notin ws_clients

\* where a task is while it owns or awaits state_lock, and ws_clients_lock
AtStateLock(t) ==
  IF t = PollerTask THEN pollPc = "wait_merge"
  ELSE IF t = ApiTask THEN apiPc = "wait_state"
  ELSE wsPc[t] \in {"wait_state", "snap_send"}

AtClientsLock(t) ==
  IF t = PollerTask THEN pollPc \in {"wait_bcast", "bcast"}
  ELSE t \in Handles /\ wsPc[t] \in {"wait_add", "wait_discard"}

NoDuplicates(q) == \A i, j \in 1..Len(q) : q[i] = q[j] => i = j

\* C20: no task owns or awaits both locks at once (so no cycle of waiting
\* tasks can form), and a lock is owned or awaited only by a task that is
\* inside the block it guards: once the send or update under it has
\* completed or failed, the task has left the lock's queue, and the task at
\* the head of a queue is one that can run.
C20_LocksNeverNested ==
  /\ Range(state_lock) \cap Range(ws_clients_lock) = {}
  /\ NoDuplicates(state_lock) /\ NoDuplicates(ws_clients_lock)
  /\ \A t \in Range(state_lock) : AtStateLock(t)
  /\ \A t \in Range(ws_clients_lock) : AtClientsLock(t)
  /\ pollPc = "wait_merge" => PollerTask \in Range(state_lock)
  /\ pollPc \in {"wait_bcast", "bcast"} => PollerTask \in Range(ws_clients_lock)
  /\ pollPc = "bcast" => Head(ws_clients_lock) = PollerTask
  /\ apiPc = "wait_state" => ApiTask \in Range(state_lock)
  /\ \A h \in Handles :
       /\ wsPc[h] \in {"wait_state", "snap_send"} => h \in Range(state_lock)
       /\ wsPc[h] = "snap_send" => Head(state_lock) = h
       /\ wsPc[h] \in {"wait_add", "wait_discard"} => h \in Range(ws_clients_lock)

\* both locks are owned, by different tasks, and each has a waiter: a
\* handler sends its snapshot under state_lock while the poller broadcasts
\* under ws_clients_lock
C20_Witness ==
  /\ Len(state_lock) >= 2
  /\ Len(ws_clients_lock) >= 2
  /\ pollPc = "bcast"
  /\ \E h \in Handles : wsPc[h] = "snap_send"

====
